---- MODULE Spec2Model ----
(***************************************************************************)
(* A model of calc.py: the pipeline calculate = tokenize, validate, parse, *)
(* evaluate.  Text is a sequence of one-character strings.  Each stage of  *)
(* calculate is one action; the stages themselves are pure functions and   *)
(* are operators computed the way the Python code computes them.           *)
(*                                                                         *)
(* Python values are records [ty, num, den, txt]:                          *)
(*   int    ty = "int",   num = the integer (unbounded, as in Python)      *)
(*   float  ty = "float", num/den the value as a reduced fraction (the     *)
(*          rounding of doubles is not modelled)                           *)
(*   str    ty = "str",   txt = the characters                             *)
(*   a Token_Kind member  ty = "kind", txt = <<name of the kind>>          *)
(* An exception that leaves a function is the field err of its result,     *)
(* named after the place that raises it.                                   *)
(***************************************************************************)
EXTENDS Integers, Sequences, FiniteSets, TLC

VARIABLES text, pc, tokens, instructions, result, calls

vars == <<text, pc, tokens, instructions, result, calls>>

(***************************************************************************)
(* Bounds of the checked inputs.                                           *)
(***************************************************************************)
MaxPunctLen == 7

MaxLexLen == 5

MaxArithLen == 9

MaxArgs == 3

(***************************************************************************)
(* Python values.                                                          *)
(***************************************************************************)
Abs(n) == IF n < 0 THEN -n ELSE n

RECURSIVE Gcd(_, _)
Gcd(a, b) == IF b = 0 THEN a ELSE Gcd(b, a % b)

IntV(n) == [ty |-> "int", num |-> n, den |-> 1, txt |-> <<>>]

FloatV(n, d) ==
  LET g == Gcd(Abs(n), Abs(d))
      sgn == IF d < 0 THEN -1 ELSE 1
  IN [ty |-> "float", num |-> sgn * (n \div g), den |-> sgn * (d \div g), txt |-> <<>>]

StrV(t) == [ty |-> "str", num |-> 0, den |-> 1, txt |-> t]

KindV(k) == [ty |-> "kind", num |-> 0, den |-> 1, txt |-> <<k>>]

NoValue == [ty |-> "none", num |-> 0, den |-> 1, txt |-> <<>>]

Token_Kind == {"INT", "FLOAT", "STRING", "PLUS", "MINUS", "ASTERISK", "SLASH",
               "LPAREN", "RPAREN", "FUNC", "COMMA"}

Token(kind, value) == [kind |-> kind, value |-> value]

IsNumber(v) == v.ty \in {"int", "float"}

\* bool(v) as the statement `if condition:` computes it
Truthy(v) ==
  CASE v.ty \in {"int", "float"} -> v.num # 0
    [] v.ty = "str" -> v.txt # <<>>
    [] OTHER -> TRUE

Val(v) == [err |-> "", val |-> v]

Raise(e) == [err |-> e, val |-> NoValue]

RECURSIVE Repeat(_, _)
Repeat(t, n) == IF n <= 0 THEN <<>> ELSE t \o Repeat(t, n - 1)

\* a + b
PyAdd(a, b) ==
  CASE a.ty = "int" /\ b.ty = "int" -> Val(IntV(a.num + b.num))
    [] IsNumber(a) /\ IsNumber(b) -> Val(FloatV(a.num * b.den + b.num * a.den, a.den * b.den))
    [] a.ty = "str" /\ b.ty = "str" -> Val(StrV(a.txt \o b.txt))
    [] OTHER -> Raise("TypeError")

\* a - b
PySub(a, b) ==
  CASE a.ty = "int" /\ b.ty = "int" -> Val(IntV(a.num - b.num))
    [] IsNumber(a) /\ IsNumber(b) -> Val(FloatV(a.num * b.den - b.num * a.den, a.den * b.den))
    [] OTHER -> Raise("TypeError")

\* a * b
PyMul(a, b) ==
  CASE a.ty = "int" /\ b.ty = "int" -> Val(IntV(a.num * b.num))
    [] IsNumber(a) /\ IsNumber(b) -> Val(FloatV(a.num * b.num, a.den * b.den))
    [] a.ty = "str" /\ b.ty = "int" -> Val(StrV(Repeat(a.txt, b.num)))
    [] a.ty = "int" /\ b.ty = "str" -> Val(StrV(Repeat(b.txt, a.num)))
    [] OTHER -> Raise("TypeError")

\* a / b
PyDiv(a, b) ==
  CASE IsNumber(a) /\ IsNumber(b) ->
         IF b.num = 0 THEN Raise("ZeroDivisionError")
         ELSE Val(FloatV(a.num * b.den, a.den * b.num))
    [] OTHER -> Raise("TypeError")

(***************************************************************************)
(* The lexer.                                                              *)
(***************************************************************************)
DIGITS == {"0", "1", "2", "3", "4", "5", "6", "7", "8", "9"}

WHITES == {" ", "\t"}

UpperCase == <<"A", "B", "C", "D", "E", "F", "G", "H", "I", "J", "K", "L", "M",
               "N", "O", "P", "Q", "R", "S", "T", "U", "V", "W", "X", "Y", "Z">>

LowerCase == <<"a", "b", "c", "d", "e", "f", "g", "h", "i", "j", "k", "l", "m",
               "n", "o", "p", "q", "r", "s", "t", "u", "v", "w", "x", "y", "z">>

\* str.lower() of one character
lower(c) ==
  IF \E i \in 1..Len(UpperCase) : UpperCase[i] = c
  THEN LowerCase[CHOOSE i \in 1..Len(UpperCase) : UpperCase[i] = c]
  ELSE c

DigitValue(c) ==
  CASE c = "0" -> 0 [] c = "1" -> 1 [] c = "2" -> 2 [] c = "3" -> 3 [] c = "4" -> 4
    [] c = "5" -> 5 [] c = "6" -> 6 [] c = "7" -> 7 [] c = "8" -> 8 [] c = "9" -> 9

\* int(int_str) of a string of digits; the empty string counts 0 (the
\* fraction of "1.")
RECURSIVE int(_)
int(ds) ==
  IF ds = <<>> THEN 0
  ELSE 10 * int(SubSeq(ds, 1, Len(ds) - 1)) + DigitValue(ds[Len(ds)])

RECURSIVE Pow10(_)
Pow10(n) == IF n = 0 THEN 1 ELSE 10 * Pow10(n - 1)

\* float(flt_str) of "<digits>.<digits>"
float(flt_int, flt_frac) ==
  FloatV(int(flt_int) * Pow10(Len(flt_frac)) + int(flt_frac), Pow10(Len(flt_frac)))

Match(m, s) == [m |-> m, s |-> s]

RECURSIVE match_sequence_in_range(_, _)
match_sequence_in_range(s, rs) ==
  IF s # <<>> /\ s[1] \in rs
  THEN LET r == match_sequence_in_range(Tail(s), rs)
       IN Match(<<s[1]>> \o r.m, r.s)
  ELSE Match(<<>>, s)

match_digits(s) == match_sequence_in_range(s, DIGITS)

match_whitespace(s) == match_sequence_in_range(s, WHITES)

\* the matched float as [m, int, frac, s]; m = <<>> when there is no match
match_float(s) ==
  LET i == match_digits(s)
  IN IF i.m = <<>> THEN [m |-> <<>>, int |-> <<>>, frac |-> <<>>, s |-> s]
     ELSE IF ~(i.s # <<>> /\ i.s[1] = ".") THEN [m |-> <<>>, int |-> <<>>, frac |-> <<>>, s |-> s]
     ELSE LET f == match_digits(Tail(i.s))
          IN [m |-> i.m \o <<".">> \o f.m, int |-> i.m, frac |-> f.m, s |-> f.s]

\* s[1,] subscripts a str with a tuple: TypeError, before any escape
\* character is looked at
match_escape_sequence(s) ==
  IF ~(s # <<>> /\ s[1] = "\\")
  THEN [err |-> "", m |-> <<>>, s |-> s]
  ELSE [err |-> "TypeError", m |-> <<>>, s |-> s]

str_seps == {"\"", "'"}

\* the loop of match_string: [err, none, m, s]; none is the result None
RECURSIVE match_string_loop(_, _, _, _)
match_string_loop(s, str_sep, str_text, start) ==
  IF Len(s) = 0 THEN [err |-> "", none |-> TRUE, m |-> <<>>, s |-> start]
  ELSE IF s[1] = str_sep THEN [err |-> "", none |-> FALSE, m |-> str_text, s |-> Tail(s)]
  ELSE IF s[1] = "\\"
       THEN LET esc == match_escape_sequence(s)
            IN IF esc.err # "" THEN [err |-> esc.err, none |-> TRUE, m |-> <<>>, s |-> start]
               ELSE match_string_loop(esc.s, str_sep, str_text \o esc.m, start)
  ELSE match_string_loop(Tail(s), str_sep, str_text \o <<s[1]>>, start)

match_string(s) ==
  IF ~(s # <<>> /\ s[1] \in str_seps)
  THEN [err |-> "", none |-> TRUE, m |-> <<>>, s |-> s]
  ELSE match_string_loop(Tail(s), s[1], <<>>, s)

FUNCS == <<<<"s", "q">>, <<"i", "f">>, <<"t", "y", "p", "e">>>>

startswith(s, p) ==
  /\ Len(s) >= Len(p)
  /\ \A i \in 1..Len(p) : s[i] = p[i]

match_funcs(s) ==
  LET s_low == [i \in 1..Len(s) |-> lower(s[i])]
      hits == {i \in 1..Len(FUNCS) : startswith(s_low, FUNCS[i])}
  IN IF hits = {} THEN Match(<<>>, s)
     ELSE LET first == CHOOSE i \in hits : \A j \in hits : i <= j
              func_len == Len(FUNCS[first])
          IN Match(SubSeq(s, 1, func_len), SubSeq(s, func_len + 1, Len(s)))

PunctKind(c) ==
  CASE c = "+" -> "PLUS" [] c = "-" -> "MINUS" [] c = "*" -> "ASTERISK"
    [] c = "/" -> "SLASH" [] c = "(" -> "LPAREN" [] c = ")" -> "RPAREN"
    [] c = "," -> "COMMA"

\* the loop of tokenize: [err, pos, tokens]
RECURSIVE tokenize_loop(_, _, _)
tokenize_loop(s, toks, start) ==
  IF s = <<>> THEN [err |-> "", pos |-> 0, tokens |-> toks]
  ELSE IF s[1] \in {"+", "-", "*", "/", "(", ")"}
  THEN tokenize_loop(match_whitespace(Tail(s)).s,
                     Append(toks, Token(PunctKind(s[1]), StrV(<<s[1]>>))), start)
  ELSE
    \* the branch of "," appends its token and skips the whitespace, but
    \* has no continue: the matchers below run on the remainder
    LET s1 == IF s[1] = "," THEN match_whitespace(Tail(s)).s ELSE s
        t1 == IF s[1] = "," THEN Append(toks, Token("COMMA", StrV(<<",">>))) ELSE toks
        str == match_string(s1)
        fun == match_funcs(s1)
        flt == match_float(s1)
        dig == match_digits(s1)
    IN IF str.err # "" THEN [err |-> str.err, pos |-> Len(start) - Len(s1), tokens |-> t1]
       ELSE IF ~str.none
       THEN tokenize_loop(match_whitespace(str.s).s, Append(t1, Token("STRING", StrV(str.m))), start)
       ELSE IF fun.m # <<>>
       THEN tokenize_loop(match_whitespace(fun.s).s, Append(t1, Token("FUNC", StrV(fun.m))), start)
       ELSE IF flt.m # <<>>
       THEN tokenize_loop(match_whitespace(flt.s).s,
                          Append(t1, Token("FLOAT", float(flt.int, flt.frac))), start)
       ELSE IF dig.m # <<>>
       THEN tokenize_loop(match_whitespace(dig.s).s, Append(t1, Token("INT", IntV(int(dig.m)))), start)
       ELSE [err |-> "LexError", pos |-> Len(start) - Len(s1), tokens |-> t1]

tokenize(s) ==
  IF s = <<>> THEN [err |-> "EmptyInput", pos |-> 0, tokens |-> <<>>]
  ELSE tokenize_loop(s, <<>>, s)

(***************************************************************************)
(* The validator.                                                          *)
(***************************************************************************)
\* test_all is handed the results of the tests, not the tests
RECURSIVE test_all(_)
test_all(tests) ==
  IF tests = <<>> THEN TRUE
  ELSE IF ~tests[1] THEN FALSE
  ELSE test_all(Tail(tests))

RECURSIVE validate_scopes_loop(_, _, _)
validate_scopes_loop(toks, i, depth) ==
  IF i > Len(toks) THEN depth = 0
  ELSE LET d == CASE toks[i].kind = "LPAREN" -> depth + 1
                  [] toks[i].kind = "RPAREN" -> depth - 1
                  [] OTHER -> depth
       IN IF d < 0 THEN FALSE
          ELSE validate_scopes_loop(toks, i + 1, d)

\* validate_scopes without the test of depth < 0 inside the loop: a variant
\* that C1 tells from the code
validate_scopes_final_only(toks) ==
  Cardinality({i \in 1..Len(toks) : toks[i].kind = "LPAREN"})
    = Cardinality({i \in 1..Len(toks) : toks[i].kind = "RPAREN"})

validate_scopes(toks) == validate_scopes_loop(toks, 1, 0)

validate(toks) == test_all(<<validate_scopes(toks)>>)

(***************************************************************************)
(* The parser: infix to postfix.  A stack is a sequence, its top last.     *)
(***************************************************************************)
LIT_KINDS == {"INT", "FLOAT", "STRING"}

OP_KINDS == {"PLUS", "MINUS", "ASTERISK", "SLASH", "COMMA", "FUNC", "LPAREN"}

\* OP_PREC with ASTERISK and SLASH at the precedence of PLUS: a variant that
\* C2 tells from the code
OP_PREC_flat(kind) ==
  CASE kind = "COMMA" -> 0
    [] kind \in {"PLUS", "MINUS", "ASTERISK", "SLASH"} -> 1
    [] kind = "FUNC" -> 3
    [] kind = "LPAREN" -> 4

OP_PREC(kind) ==
  CASE kind = "COMMA" -> 0
    [] kind \in {"PLUS", "MINUS"} -> 1
    [] kind \in {"ASTERISK", "SLASH"} -> 2
    [] kind = "FUNC" -> 3
    [] kind = "LPAREN" -> 4

peek(stack) == stack[Len(stack)]

pop(stack) == SubSeq(stack, 1, Len(stack) - 1)

\* the while loop of the operator branch: [ops, out]
RECURSIVE parse_operator_loop(_, _, _)
parse_operator_loop(ops, out, token) ==
  IF /\ ops # <<>>
     /\ peek(ops).kind \notin {"LPAREN", "COMMA"}
     /\ ~(OP_PREC(peek(ops).kind) < OP_PREC(token.kind))
  THEN parse_operator_loop(pop(ops), Append(out, peek(ops)), token)
  ELSE [ops |-> ops, out |-> out]

\* the while loop of the RPAREN branch: [ops, out]
RECURSIVE parse_rparen_loop(_, _)
parse_rparen_loop(ops, out) ==
  IF ops # <<>> /\ peek(ops).kind # "LPAREN"
  THEN IF peek(ops).kind = "COMMA"
       THEN parse_rparen_loop(pop(ops), out)
       ELSE parse_rparen_loop(pop(ops), Append(out, peek(ops)))
  ELSE [ops |-> ops, out |-> out]

\* the RPAREN branch: [err, ops, out]
parse_rparen(ops, out) ==
  LET l == parse_rparen_loop(ops, out)
      f == IF l.ops # <<>> /\ peek(l.ops).kind = "FUNC"
           THEN [ops |-> pop(l.ops), out |-> Append(l.out, peek(l.ops))]
           ELSE l
  IN IF f.ops = <<>> THEN [err |-> "IndexError", ops |-> f.ops, out |-> f.out]
     ELSE IF peek(f.ops).kind # "LPAREN"
     THEN [err |-> "AssertionError", ops |-> pop(f.ops), out |-> f.out]
     ELSE [err |-> "", ops |-> pop(f.ops), out |-> f.out]

\* the final loop: every operator left, top first
RECURSIVE parse_drain(_, _)
parse_drain(ops, out) ==
  IF ops # <<>> THEN parse_drain(pop(ops), Append(out, peek(ops))) ELSE out

\* the for loop of parse: [err, out]
RECURSIVE parse_loop(_, _, _, _)
parse_loop(toks, i, ops, out) ==
  IF i > Len(toks) THEN [err |-> "", out |-> parse_drain(ops, out)]
  ELSE LET token == toks[i]
       IN IF token.kind \in LIT_KINDS
          THEN parse_loop(toks, i + 1, ops, Append(out, token))
          ELSE IF token.kind \in OP_KINDS
          THEN LET l == parse_operator_loop(ops, out, token)
               IN parse_loop(toks, i + 1, Append(l.ops, token), l.out)
          ELSE IF token.kind = "RPAREN"
          THEN LET r == parse_rparen(ops, out)
               IN IF r.err # "" THEN [err |-> r.err, out |-> r.out]
                  ELSE parse_loop(toks, i + 1, r.ops, r.out)
          ELSE [err |-> "UnparsableToken", out |-> out]

parse(toks) == parse_loop(toks, 1, <<>>, <<>>)

(***************************************************************************)
(* The evaluator.                                                          *)
(***************************************************************************)
\* [err, token]
make_token(a) ==
  IF a.ty = "int" THEN [err |-> "", token |-> Token("INT", a)]
  ELSE IF a.ty = "float" THEN [err |-> "", token |-> Token("FLOAT", a)]
  ELSE [err |-> "UnknownType", token |-> Token("INT", a)]

Stack(stack) == [err |-> "", stack |-> stack]

Fail(e, stack) == [err |-> e, stack |-> stack]

Push(stack, c) ==
  IF c.err # "" THEN Fail(c.err, stack)
  ELSE LET t == make_token(c.val)
       IN IF t.err # "" THEN Fail(t.err, stack) ELSE Stack(Append(stack, t.token))

BinaryOp(kind, a, b) ==
  CASE kind = "PLUS" -> PyAdd(a, b)
    [] kind = "MINUS" -> PySub(a, b)
    [] kind = "ASTERISK" -> PyMul(a, b)
    [] kind = "SLASH" -> PyDiv(a, b)

\* the branches PLUS, MINUS, ASTERISK, SLASH: b is popped first, then a
evaluate_binary(kind, stack) ==
  IF Len(stack) < 2 THEN Fail("IndexError", <<>>)
  ELSE LET b == peek(stack).value
           a == peek(pop(stack)).value
       IN Push(pop(pop(stack)), BinaryOp(kind, a, b))

evaluate_sq(stack) ==
  IF Len(stack) < 1 THEN Fail("ArgumentError", stack)
  ELSE LET a == peek(stack).value
       IN Push(pop(stack), PyMul(a, a))

evaluate_if(stack) ==
  IF Len(stack) < 3 THEN Fail("ArgumentError", stack)
  ELSE LET false_val == peek(stack).value
           true_val == peek(pop(stack)).value
           condition == peek(pop(pop(stack))).value
       IN IF Truthy(condition)
          THEN Push(pop(pop(pop(stack))), Val(true_val))
          ELSE Push(pop(pop(pop(stack))), Val(false_val))

evaluate_type(stack) ==
  IF Len(stack) < 1 THEN Fail("ArgumentError", stack)
  ELSE LET a == peek(stack).kind
       IN Stack(Append(pop(stack), Token("STRING", KindV(a))))

\* one iteration of the for loop: [err, stack]
evaluate_token(token, stack) ==
  IF token.kind \in LIT_KINDS THEN Stack(Append(stack, token))
  ELSE IF token.kind \in {"PLUS", "MINUS", "ASTERISK", "SLASH"}
  THEN evaluate_binary(token.kind, stack)
  ELSE IF token.kind = "FUNC"
  THEN IF token.value = StrV(<<"s", "q">>) THEN evaluate_sq(stack)
       ELSE IF token.value = StrV(<<"i", "f">>) THEN evaluate_if(stack)
       ELSE IF token.value = StrV(<<"t", "y", "p", "e">>) THEN evaluate_type(stack)
       ELSE Fail("UnknownFunction", stack)
  ELSE Fail("UnknownToken", stack)

RECURSIVE evaluate_loop(_, _, _)
evaluate_loop(toks, i, stack) ==
  IF i > Len(toks) THEN Stack(stack)
  ELSE LET r == evaluate_token(toks[i], stack)
       IN IF r.err # "" THEN r ELSE evaluate_loop(toks, i + 1, r.stack)

\* [err, stack, token]: token is the token returned
evaluate(toks) ==
  LET r == evaluate_loop(toks, 1, <<>>)
  IN IF r.err # "" THEN [err |-> r.err, stack |-> r.stack, token |-> Token("INT", NoValue)]
     ELSE IF Len(r.stack) # 1
     THEN [err |-> "MalformedExpression", stack |-> r.stack, token |-> Token("INT", NoValue)]
     ELSE [err |-> "", stack |-> r.stack, token |-> peek(r.stack)]

(***************************************************************************)
(* The inputs.                                                             *)
(***************************************************************************)
SeqsUpTo(A, n) == UNION {[1..k -> A] : k \in 0..n}

\* every text of at most MaxPunctLen characters of grouping, a digit, an
\* operator and the comma
PunctChars == {"(", ")", "1", "+", ","}

PunctTexts == SeqsUpTo(PunctChars, MaxPunctLen)

\* every text of at most MaxLexLen characters of string literals, escapes
\* and punctuation
LexChars == {"'", "\\", "n", ",", "+", "1"}

LexTexts == SeqsUpTo(LexChars, MaxLexLen)

\* the infix expressions of exactly n characters, from those shorter
ArithAtoms == {<<"2">>, <<"3">>, <<"1", "0">>}

ArithOps == {"+", "-", "*"}

ArithLevel(n, ws) ==
  {a \in ArithAtoms : Len(a) = n}
  \cup (IF n >= 3 THEN {<<"(">> \o w \o <<")">> : w \in ws[n - 2]} ELSE {})
  \cup UNION {{x[1] \o <<x[2]>> \o x[3] : x \in ws[k] \X ArithOps \X ws[n - 1 - k]} : k \in 1..(n - 2)}

RECURSIVE ArithLevels(_, _)
ArithLevels(n, ws) ==
  IF n > MaxArithLen THEN ws ELSE ArithLevels(n + 1, Append(ws, ArithLevel(n, ws)))

ArithChars == {"2", "3", "+", "-", "*", "(", ")"}

\* every infix expression of at most MaxArithLen characters, and every
\* text of at most MaxArithLen - 3 characters, well formed or not
ArithTexts ==
  LET ws == ArithLevels(1, <<>>)
  IN UNION {ws[n] : n \in 1..Len(ws)} \cup SeqsUpTo(ArithChars, MaxArithLen - 3)

\* calls of the built-ins, in both letter cases, on at most MaxArgs
\* literal arguments: alone, as the right operand of a product, and as the
\* second argument of another call
CallNames == {<<"s", "q">>, <<"i", "f">>, <<"t", "y", "p", "e">>, <<"S", "Q">>, <<"I", "f">>}

CallAtoms == {<<"1">>, <<"0">>, <<"2", ".", "5">>, <<"'", "a", "'">>}

RECURSIVE Join(_)
Join(args) ==
  IF args = <<>> THEN <<>>
  ELSE IF Len(args) = 1 THEN args[1]
  ELSE args[1] \o <<",">> \o Join(Tail(args))

Call(f, args) == f \o <<"(">> \o Join(args) \o <<")">>

Calls == {Call(x[1], x[2]) : x \in CallNames \X SeqsUpTo(CallAtoms, MaxArgs)}

CallTexts ==
  Calls
  \cup {<<"2", "*">> \o c : c \in Calls}
  \cup {Call(x[1], <<x[2], x[3]>>) : x \in CallNames \X CallAtoms \X Calls}

(***************************************************************************)
(* calculate, one action for each of its lines.  calls lists the stages    *)
(* called so far; tokens and instructions are the locals of calculate, set *)
(* when the stage returns.                                                 *)
(***************************************************************************)
Running == [st |-> "running", err |-> "", pos |-> 0, val |-> NoValue]

Raised(e, p) == [st |-> "raised", err |-> e, pos |-> p, val |-> NoValue]

Start(texts) ==
  /\ text \in texts
  /\ pc = "tokenize"
  /\ tokens = <<>>
  /\ instructions = <<>>
  /\ result = Running
  /\ calls = <<>>

\* tokens = tokenize(s)
Tokenize ==
  /\ pc = "tokenize"
  /\ LET r == tokenize(text)
     IN IF r.err # ""
        THEN pc' = "done" /\ result' = Raised(r.err, r.pos) /\ tokens' = tokens
        ELSE pc' = "validate" /\ result' = result /\ tokens' = r.tokens
  /\ calls' = Append(calls, "tokenize")
  /\ UNCHANGED <<text, instructions>>

\* if not validate(tokens): return None
Validate ==
  /\ pc = "validate"
  /\ IF validate(tokens)
     THEN pc' = "parse" /\ result' = result
     ELSE pc' = "done" /\ result' = [st |-> "none", err |-> "", pos |-> 0, val |-> NoValue]
  /\ calls' = Append(calls, "validate")
  /\ UNCHANGED <<text, tokens, instructions>>

\* instructions = parse(tokens)
Parse ==
  /\ pc = "parse"
  /\ LET r == parse(tokens)
     IN IF r.err # ""
        THEN pc' = "done" /\ result' = Raised(r.err, 0) /\ instructions' = instructions
        ELSE pc' = "evaluate" /\ result' = result /\ instructions' = r.out
  /\ calls' = Append(calls, "parse")
  /\ UNCHANGED <<text, tokens>>

\* result = evaluate(instructions); return result.value
Evaluate ==
  /\ pc = "evaluate"
  /\ LET r == evaluate(instructions)
     IN /\ pc' = "done"
        /\ IF r.err # ""
           THEN result' = Raised(r.err, 0)
           ELSE result' = [st |-> "value", err |-> "", pos |-> 0, val |-> r.token.value]
  /\ calls' = Append(calls, "evaluate")
  /\ UNCHANGED <<text, tokens, instructions>>

Next == Tokenize \/ Validate \/ Parse \/ Evaluate

InitPunct == Start(PunctTexts)

InitLex == Start(LexTexts)

InitArith == Start(ArithTexts)

InitCalls == Start(CallTexts)

SpecPunct == InitPunct /\ [][Next]_vars

SpecLex == InitLex /\ [][Next]_vars

SpecArith == InitArith /\ [][Next]_vars

SpecCalls == InitCalls /\ [][Next]_vars

(***************************************************************************)
(* Properties.                                                             *)
(***************************************************************************)
Tokenized == pc # "tokenize" /\ ~(pc = "done" /\ calls = <<"tokenize">>)

Count(toks, kind, n) == Cardinality({i \in 1..n : toks[i].kind = kind})

\* some prefix holds more RPAREN than LPAREN, or the totals differ
Unbalanced(toks) ==
  \/ \E n \in 0..Len(toks) : Count(toks, "RPAREN", n) > Count(toks, "LPAREN", n)
  \/ Count(toks, "LPAREN", Len(toks)) # Count(toks, "RPAREN", Len(toks))

\* C1: for every text that tokenizes, calculate returns None, without
\* raising and without calling parse or evaluate, exactly when the grouping
\* of the tokens is unbalanced; when it is balanced, validation passes and
\* parse is called.
C1_NoneIffUnbalanced ==
  Tokenized =>
    /\ (pc \in {"parse", "evaluate"}) => ~Unbalanced(tokens)
    /\ (pc = "done" /\ Unbalanced(tokens)) =>
         (result.st = "none" /\ calls = <<"tokenize", "validate">>)
    /\ (pc = "done" /\ ~Unbalanced(tokens)) =>
         (result.st # "none" /\ Len(calls) >= 3 /\ calls[3] = "parse")

\* a text refused although it has as many LPAREN as RPAREN: a prefix closes
\* more than it opens
C1_Witness ==
  /\ pc = "done"
  /\ result.st = "none"
  /\ calls = <<"tokenize", "validate">>
  /\ Len(tokens) >= 2
  /\ Count(tokens, "LPAREN", Len(tokens)) = Count(tokens, "RPAREN", Len(tokens))

\* The standard reading of an infix token stream, by recursive descent:
\*   expr ::= term {(PLUS | MINUS) term}     term ::= factor {ASTERISK factor}
\*   factor ::= INT | LPAREN expr RPAREN
\* Each operator gives [ok, val, pos]: whether a phrase starts at toks[i],
\* its value and the position after it.
NoPhrase == [ok |-> FALSE, val |-> 0, pos |-> 0]

Phrase(v, p) == [ok |-> TRUE, val |-> v, pos |-> p]

KindAt(toks, i) == IF i <= Len(toks) THEN toks[i].kind ELSE "END"

RECURSIVE StdExpr(_, _), StdExprRest(_, _, _), StdTerm(_, _), StdTermRest(_, _, _), StdFactor(_, _)
StdFactor(toks, i) ==
  IF KindAt(toks, i) = "INT" THEN Phrase(toks[i].value.num, i + 1)
  ELSE IF KindAt(toks, i) = "LPAREN"
  THEN LET e == StdExpr(toks, i + 1)
       IN IF e.ok /\ KindAt(toks, e.pos) = "RPAREN" THEN Phrase(e.val, e.pos + 1) ELSE NoPhrase
  ELSE NoPhrase

StdTermRest(toks, i, left) ==
  IF KindAt(toks, i) = "ASTERISK"
  THEN LET f == StdFactor(toks, i + 1)
       IN IF f.ok THEN StdTermRest(toks, f.pos, left * f.val) ELSE NoPhrase
  ELSE Phrase(left, i)

StdTerm(toks, i) ==
  LET f == StdFactor(toks, i)
  IN IF f.ok THEN StdTermRest(toks, f.pos, f.val) ELSE NoPhrase

StdExprRest(toks, i, left) ==
  IF KindAt(toks, i) \in {"PLUS", "MINUS"}
  THEN LET t == StdTerm(toks, i + 1)
       IN IF t.ok
          THEN StdExprRest(toks, t.pos, IF toks[i].kind = "PLUS" THEN left + t.val ELSE left - t.val)
          ELSE NoPhrase
  ELSE Phrase(left, i)

StdExpr(toks, i) ==
  LET t == StdTerm(toks, i)
  IN IF t.ok THEN StdExprRest(toks, t.pos, t.val) ELSE NoPhrase

WellFormedArith(toks) ==
  /\ \A i \in 1..Len(toks) : toks[i].kind \in {"INT", "PLUS", "MINUS", "ASTERISK", "LPAREN", "RPAREN"}
  /\ StdExpr(toks, 1).ok
  /\ StdExpr(toks, 1).pos = Len(toks) + 1

\* C2: for every well-formed infix token stream of Integer literals, Plus,
\* Minus, Asterisk and balanced parentheses, evaluate(parse(tokens)) is the
\* Integer that the standard reading gives: Asterisk binds tighter than Plus
\* and Minus, equal precedence associates to the left, and the operand
\* popped second is the left one.
C2_StandardReading ==
  (Tokenized /\ pc = "done" /\ WellFormedArith(tokens)) =>
    /\ calls = <<"tokenize", "validate", "parse", "evaluate">>
    /\ instructions = parse(tokens).out
    /\ result.st = "value"
    /\ result.val = IntV(StdExpr(tokens, 1).val)

\* an expression whose value depends on all three: a parenthesised
\* difference times a number
C2_Witness ==
  /\ pc = "done"
  /\ WellFormedArith(tokens)
  /\ result.st = "value"
  /\ \E i, j, k \in 1..Len(tokens) :
       /\ i < j /\ j < k
       /\ tokens[i].kind = "MINUS" /\ tokens[j].kind = "RPAREN" /\ tokens[k].kind = "ASTERISK"

\* The calls of a token stream: a FUNC at i, LPAREN at i + 1 and the
\* RPAREN that closes it at j.  Depth(toks, i, k) is the nesting depth at k
\* counted from i.
Depth(toks, i, k) ==
  Cardinality({m \in i..k : toks[m].kind = "LPAREN"})
    - Cardinality({m \in i..k : toks[m].kind = "RPAREN"})

IsCall(toks, i, j) ==
  /\ i + 1 < j /\ j <= Len(toks)
  /\ toks[i].kind = "FUNC"
  /\ toks[i + 1].kind = "LPAREN"
  /\ toks[j].kind = "RPAREN"
  /\ Depth(toks, i + 1, j) = 0
  /\ \A k \in (i + 1)..(j - 1) : Depth(toks, i + 1, k) > 0

\* the arguments written between the parentheses of the call
Supplied(toks, i, j) ==
  IF j = i + 2 THEN 0
  ELSE 1 + Cardinality({k \in (i + 2)..(j - 1) :
                          toks[k].kind = "COMMA" /\ Depth(toks, i + 1, k) = 1})

Required(name) ==
  CASE name = <<"s", "q">> -> 1
    [] name = <<"i", "f">> -> 3
    [] name = <<"t", "y", "p", "e">> -> 1

\* C3: an expression with a call of a built-in that supplies fewer arguments
\* between its parentheses than the built-in requires (sq 1, if 3, type 1)
\* ends in ArgumentError, wherever the call stands.  Stated for the calls
\* spelled in lower case.
C3_TooFewArguments ==
  (/\ Tokenized
   /\ pc = "done"
   /\ \E i, j \in 1..Len(tokens) :
        /\ IsCall(tokens, i, j)
        /\ \E n \in 1..Len(FUNCS) : tokens[i].value.txt = FUNCS[n]
        /\ Supplied(tokens, i, j) < Required(tokens[i].value.txt)
   /\ \A i \in 1..Len(tokens) :
        tokens[i].kind = "FUNC" => \E n \in 1..Len(FUNCS) : tokens[i].value.txt = FUNCS[n])
  => (result.st = "raised" /\ result.err = "ArgumentError")

\* the payload of a token has the type that its kind determines
TokenInvariant(token) ==
  /\ token.kind = "INT" => token.value.ty = "int"
  /\ token.kind = "FLOAT" => token.value.ty = "float"
  /\ token.kind \in Token_Kind \ {"INT", "FLOAT"} => token.value.ty = "str"

\* C4: type pushes a String token whose payload is text, so the token that
\* evaluate returns satisfies the Token invariant.
C4_ResultTokenInvariant ==
  (pc = "done" /\ result.st = "value") =>
    /\ TokenInvariant(evaluate(instructions).token)
    /\ result.val.ty \in {"int", "float", "str"}

\* C5: if, on a numeric condition and two literal branches, pushes the true
\* branch when the condition is nonzero and the false branch otherwise, with
\* the kind and the payload of the branch, for Integer, Float and String
\* branches, and the evaluation does not fail.
C5_IfKeepsBranch ==
  (/\ pc = "done"
   /\ Len(instructions) = 4
   /\ instructions[4] = Token("FUNC", StrV(<<"i", "f">>))
   /\ \A i \in 1..3 : instructions[i].kind \in LIT_KINDS
   /\ instructions[1].kind \in {"INT", "FLOAT"})
  => /\ result.st = "value"
     /\ evaluate(instructions).token =
          (IF instructions[1].value.num # 0 THEN instructions[2] ELSE instructions[3])

\* the failures that the taxonomy of errors names; UnknownToken, which the
\* evaluator's contract names, counts as classified as well
Taxonomy == {"EmptyInput", "LexError", "EscapeError", "UnparsableToken", "ArgumentError",
             "UnknownFunction", "MalformedExpression", "UnknownToken"}

\* C6: every call of calculate ends in a scalar result, in no result, or in
\* a failure of a kind of the taxonomy; no other failure is reachable.
C6_OnlyClassifiedFailures ==
  pc = "done" =>
    \/ result.st \in {"value", "none"}
    \/ result.st = "raised" /\ result.err \in Taxonomy

Punctuation == {"+", "-", "*", "/", "(", ")", ","}

\* C7: tokenize fails with LexError only where no matcher can advance; a
\* punctuation character at the current position is always matched, and so
\* is the end of the input.
C7_LexErrorOnlyAtUnmatched ==
  (pc = "done" /\ result.st = "raised" /\ result.err = "LexError") =>
    /\ result.pos < Len(text)
    /\ text[result.pos + 1] \notin Punctuation

\* The body of a string literal that starts at s[1], read as the lexer's
\* contract says: [closed, txt, next].  closed: the closing quote is
\* found and every escape on the way is a recognised one.
EscapeOf(c) ==
  CASE c = "\\" -> "\\" [] c = "n" -> "\n" [] c = "t" -> "\t" [] c = "\"" -> "\"" [] c = "'" -> "'"

RECURSIVE ReadString(_, _, _)
ReadString(s, i, txt) ==
  IF i > Len(s) THEN [closed |-> FALSE, txt |-> txt, next |-> i]
  ELSE IF s[i] = s[1] THEN [closed |-> TRUE, txt |-> txt, next |-> i + 1]
  ELSE IF s[i] = "\\"
  THEN IF i + 1 <= Len(s) /\ s[i + 1] \in {"\\", "n", "t", "\"", "'"}
       THEN ReadString(s, i + 2, Append(txt, EscapeOf(s[i + 1])))
       ELSE [closed |-> FALSE, txt |-> txt, next |-> i]
  ELSE ReadString(s, i + 1, Append(txt, s[i]))

\* C8: a string literal with its closing quote and recognised escapes only
\* gives one String token, its payload the enclosed text with each escape
\* replaced by the character it denotes.  Stated for a text that is one
\* literal.
C8_StringLiteral ==
  (/\ pc # "tokenize"
   /\ text # <<>>
   /\ text[1] \in str_seps
   /\ ReadString(text, 2, <<>>).closed
   /\ ReadString(text, 2, <<>>).next = Len(text) + 1)
  => /\ Tokenized
     /\ tokens = <<Token("STRING", StrV(ReadString(text, 2, <<>>).txt))>>

\* C9: every Func token that tokenize emits is dispatched to sq, if or type;
\* no text ends in UnknownFunction.
C9_FuncAlwaysDispatched ==
  pc = "done" => ~(result.st = "raised" /\ result.err = "UnknownFunction")

\* C10: the output queue of parse, for tokens that pass validate, holds only
\* literals, arithmetic operators and Func tokens: never a Comma, an LParen
\* or an RParen.
C10_OutputQueueKinds ==
  (pc \in {"evaluate", "done"} /\ Len(calls) >= 3 /\ ~(calls = <<"tokenize", "validate", "parse">> /\ pc = "done")) =>
    \A i \in 1..Len(instructions) :
      instructions[i].kind \in LIT_KINDS \cup {"PLUS", "MINUS", "ASTERISK", "SLASH", "FUNC"}

====
